---------------------------- MODULE Spec2Model ----------------------------
(*************************************************************************)
(* Model of the PNCP search pipeline: the fetch layer                    *)
(* buscarLicitacoesPNCP (modality resolver, date window, paginated       *)
(* fetcher, keyword/blacklist filter), the error classifier              *)
(* handleApiError, and the POST route (rate limiter, handler, boundary   *)
(* filter).                                                              *)
(*                                                                       *)
(* Conventions.  A JavaScript string is a sequence of one-character      *)
(* strings.  An optional value (T | null | undefined) is <<>> when it is *)
(* absent and <<v>> when it is present.  A calendar date string          *)
(* "yyyy-MM-dd" is the triple <<y, m, d>> of its fields; a Date at local *)
(* midnight is its day number.                                           *)
(*************************************************************************)
EXTENDS Integers, Sequences, FiniteSets, TLC

VARIABLES
    filters,             \* the PncpApiFilters argument (plus sinonimos, read by POST)
    pc,                  \* position of the call: start, await, delay, done, posted
    baseParams,          \* query parameters built before the loop
    modalidadesCodigos,  \* the resolved code sequence
    idx,                 \* 1-based position of the for-loop in modalidadesCodigos
    currentPage,
    totalPages,
    allLicitacoes,       \* the raw aggregate
    inflight,            \* outbound requests issued and not yet settled
    reqLog,              \* history: every request issued (visit i, code, page, time
                         \* slept so far) with its outcome (res, totalPaginas, data)
    erros,               \* history: every call of handleApiError made by the loop
    timer,               \* milliseconds left of the running delay(200)
    slept,               \* history: milliseconds spent in delay() so far
    resposta,            \* the envelope returned by buscarLicitacoesPNCP
    filtradas,           \* the "resultados" of the POST response
    quiet,               \* upstream: how a non-busy modality answers every page
    busyLeft,            \* upstream: modalities that may still answer arbitrarily
    curBusy,             \* upstream: the current modality answers arbitrarily
    requestCounts,       \* the Map of the rate limiter, by client key
    now,                 \* Date.now(), in milliseconds
    emCurso,             \* admitted POST requests being handled, by await
    ultima,              \* the response sent last
    janela               \* history: per key, the admissions of its current window

fetchVars == <<filters, pc, baseParams, modalidadesCodigos, idx, currentPage,
               totalPages, allLicitacoes, inflight, reqLog, erros, timer, slept,
               resposta, filtradas, quiet, busyLeft, curBusy>>

limiteVars == <<requestCounts, now, emCurso, ultima, janela>>

vars == <<filters, pc, baseParams, modalidadesCodigos, idx, currentPage,
          totalPages, allLicitacoes, inflight, reqLog, erros, timer, slept,
          resposta, filtradas, quiet, busyLeft, curBusy,
          requestCounts, now, emCurso, ultima, janela>>

-----------------------------------------------------------------------------
(* Bounds of the model *)

\* longest list of modality names given to the resolver
MaxNames == 2
\* largest totalPaginas the upstream reports
MaxTotalPaginas == 2
\* most records on one page
MaxPageRecords == 1
\* modalities per call that answer arbitrarily (the others answer `quiet`)
MaxBusy == 1
\* calendar years 2023 .. 2023 + YearSpan are drawn for the date bounds
YearSpan == 2
\* longest raw aggregate drawn for the filter specification
MaxAggregate == 2

-----------------------------------------------------------------------------
(* Strings *)

Some(v) == <<v>>
None == <<>>

ToLowerChar(c) ==
    CASE c = "A" -> "a" [] c = "B" -> "b" [] c = "C" -> "c" [] c = "D" -> "d"
      [] c = "E" -> "e" [] c = "F" -> "f" [] c = "G" -> "g" [] c = "I" -> "i"
      [] c = "L" -> "l" [] c = "M" -> "m" [] c = "N" -> "n" [] c = "O" -> "o"
      [] c = "P" -> "p" [] c = "Q" -> "q" [] c = "R" -> "r" [] c = "S" -> "s"
      [] c = "T" -> "t" [] c = "U" -> "u" [] c = "V" -> "v" [] c = "X" -> "x"
      [] c = "Y" -> "y" [] c = "Z" -> "z" [] c = "Á" -> "á" [] c = "Ã" -> "ã"
      [] c = "Ç" -> "ç" [] c = "É" -> "é" [] c = "Ê" -> "ê" [] c = "Ô" -> "ô"
      [] OTHER -> c

\* String.prototype.toLowerCase
toLowerCase(s) == [i \in 1..Len(s) |-> ToLowerChar(s[i])]

\* String.prototype.indexOf, 1-based; 0 when pat does not occur
indexOf(s, pat) ==
    LET hits == {i \in 1..(Len(s) - Len(pat) + 1) : SubSeq(s, i, i + Len(pat) - 1) = pat}
    IN  IF hits = {} THEN 0 ELSE CHOOSE i \in hits : \A j \in hits : i <= j

\* String.prototype.includes
includes(s, pat) == indexOf(s, pat) # 0

\* String.prototype.replace(pat, "") with a string pattern: the FIRST occurrence only
replaceFirst(s, pat) ==
    LET i == indexOf(s, pat)
    IN  IF i = 0 THEN s ELSE SubSeq(s, 1, i - 1) \o SubSeq(s, i + Len(pat), Len(s))

\* String.prototype.trim
trim(s) ==
    LET keep == {i \in 1..Len(s) : s[i] # " "}
    IN  IF keep = {} THEN <<>>
        ELSE LET lo == CHOOSE i \in keep : \A j \in keep : i <= j
                 hi == CHOOSE i \in keep : \A j \in keep : j <= i
             IN  SubSeq(s, lo, hi)

-----------------------------------------------------------------------------
(* Modality resolver *)

Nome1 ==
    <<"l","e","i","l","ã","o"," ","e","l","e","t","r","ô","n","i","c","o">>
Nome2 ==
    <<"d","i","á","l","o","g","o"," ","c","o","m","p","e","t","i","t","i","v","o">>
Nome3 ==
    <<"c","o","n","c","u","r","s","o">>
Nome4 ==
    <<"c","o","n","c","o","r","r","ê","n","c","i","a"," ","e","l","e","t","r","ô","n","i","c","a">>
Nome5 ==
    <<"c","o","n","c","o","r","r","ê","n","c","i","a"," ","p","r","e","s","e","n","c","i","a","l">>
Nome6 ==
    <<"p","r","e","g","ã","o"," ","e","l","e","t","r","ô","n","i","c","o">>
Nome7 ==
    <<"p","r","e","g","ã","o"," ","p","r","e","s","e","n","c","i","a","l">>
Nome8 ==
    <<"d","i","s","p","e","n","s","a"," ","d","e"," ","l","i","c","i","t","a","ç","ã","o">>
Nome9 ==
    <<"i","n","e","x","i","g","i","b","i","l","i","d","a","d","e"," ","d","e"," ","l","i","c","i","t","a","ç","ã","o">>
Nome10 ==
    <<"m","a","n","i","f","e","s","t","a","ç","ã","o"," ","d","e"," ","i","n","t","e","r","e","s","s","e">>
Nome11 ==
    <<"p","r","é","-","q","u","a","l","i","f","i","c","a","ç","ã","o">>
Nome12 ==
    <<"c","r","e","d","e","n","c","i","a","m","e","n","t","o">>
Nome13 ==
    <<"l","e","i","l","ã","o"," ","p","r","e","s","e","n","c","i","a","l">>

\* the own keys of the object literal, by code
NomeDe ==
    <<Nome1, Nome2, Nome3, Nome4, Nome5, Nome6, Nome7, Nome8, Nome9, Nome10,
      Nome11, Nome12, Nome13>>

\* the literal " de licitação" removed by the normalisation
SufixoLicitacao ==
    <<" ","d","e"," ","l","i","c","i","t","a","ç","ã","o">>

\* A key the object literal inherits from Object.prototype and that survives
\* lower-casing: modalidadesMap["constructor"] is the Object function.
ChaveHerdada ==
    <<"c","o","n","s","t","r","u","c","t","o","r">>

\* The value of an inherited key: not a number and not undefined.  It stands
\* in the code sequence as 0, outside the codes 1..13.
ValorHerdado == 0

\* modalidadesMap[key]: an own key gives its code, an inherited key its
\* inherited value, anything else undefined
modalidadesMap(key) ==
    IF \E c \in 1..13 : NomeDe[c] = key
    THEN Some(CHOOSE c \in 1..13 : NomeDe[c] = key)
    ELSE IF key = ChaveHerdada THEN Some(ValorHerdado) ELSE None

normalizedName(modalidadeNome) ==
    trim(replaceFirst(toLowerCase(modalidadeNome), SufixoLicitacao))

getPncpModalidadeCodigo(modalidadeNome) ==
    modalidadesMap(normalizedName(modalidadeNome))

ALL_MODALITY_CODES == <<1, 2, 3, 4, 5, 6, 7, 8, 9, 10, 11, 12, 13>>

RECURSIVE MapFilterCodes(_)
\* names.map(getPncpModalidadeCodigo).filter(code => code !== undefined)
MapFilterCodes(names) ==
    IF names = <<>> THEN <<>>
    ELSE getPncpModalidadeCodigo(Head(names)) \o MapFilterCodes(Tail(names))

\* the conditional of lines 102-104
ResolveModalidades(names) ==
    IF Len(names) > 0 THEN MapFilterCodes(names) ELSE ALL_MODALITY_CODES

-----------------------------------------------------------------------------
(* Dates (date-fns on calendar dates) *)

IsLeap(y) == (y % 4 = 0 /\ y % 100 # 0) \/ y % 400 = 0

DaysInMonth(y, m) ==
    CASE m \in {4, 6, 9, 11} -> 30
      [] m = 2 -> IF IsLeap(y) THEN 29 ELSE 28
      [] OTHER -> 31

RECURSIVE DaysBeforeMonth(_, _)
DaysBeforeMonth(y, m) ==
    IF m = 1 THEN 0 ELSE DaysBeforeMonth(y, m - 1) + DaysInMonth(y, m - 1)

\* days from 0001-01-01 to the first day of year y
DaysBeforeYear(y) ==
    LET p == y - 1 IN 365 * p + (p \div 4) - (p \div 100) + (p \div 400)

\* parseISO of a date-only string: the Date at local midnight, as a day number
parseISO(s) == DaysBeforeYear(s[1]) + DaysBeforeMonth(s[1], s[2]) + (s[3] - 1)

\* differenceInDays(later, earlier) of two local midnights
differenceInDays(later, earlier) == later - earlier

subDays(date, n) == date - n

YearOfDay(n) ==
    CHOOSE y \in 1..9999 : DaysBeforeYear(y) <= n /\ n < DaysBeforeYear(y + 1)

MonthOfDay(y, n) ==
    CHOOSE m \in 1..12 :
        /\ DaysBeforeYear(y) + DaysBeforeMonth(y, m) <= n
        /\ n < DaysBeforeYear(y) + DaysBeforeMonth(y, m) + DaysInMonth(y, m)

\* format(date, 'yyyyMMdd'): the eight digits, as a number
formatYyyyMMdd(n) ==
    LET y == YearOfDay(n)
        m == MonthOfDay(y, n)
        d == n - DaysBeforeYear(y) - DaysBeforeMonth(y, m) + 1
    IN  y * 10000 + m * 100 + d

\* BuildBaseParams with the limit of the window off by one day
BuildBaseParamsLimiar(f) ==
    LET ini == parseISO(f.dataInicial[1])
        fim == parseISO(f.dataFinal[1])
        adj == IF differenceInDays(fim, ini) > 366 THEN subDays(fim, 365) ELSE ini
    IN  [tamanhoPagina |-> 50,
         dataInicial |-> IF f.dataInicial = None THEN None
                         ELSE IF f.dataFinal = None THEN Some(formatYyyyMMdd(ini))
                         ELSE Some(formatYyyyMMdd(adj)),
         dataFinal |-> IF f.dataFinal = None THEN None ELSE Some(formatYyyyMMdd(fim)),
         valorMinimo |-> IF f.valorMin # None /\ f.valorMin[1] # 0 THEN f.valorMin ELSE None,
         valorMaximo |-> IF f.valorMax # None /\ f.valorMax[1] # 0 THEN f.valorMax ELSE None]

\* lines 78-97: the date part of baseParams, and the value bounds
BuildBaseParams(f) ==
    LET datas ==
            IF f.dataInicial # None /\ f.dataFinal # None
            THEN LET ini == parseISO(f.dataInicial[1])
                     fim == parseISO(f.dataFinal[1])
                     adj == IF differenceInDays(fim, ini) > 365
                            THEN subDays(fim, 365) ELSE ini
                 IN  [dataInicial |-> Some(formatYyyyMMdd(adj)),
                      dataFinal |-> Some(formatYyyyMMdd(fim))]
            ELSE IF f.dataInicial # None
            THEN [dataInicial |-> Some(formatYyyyMMdd(parseISO(f.dataInicial[1]))),
                  dataFinal |-> None]
            ELSE IF f.dataFinal # None
            THEN [dataInicial |-> None,
                  dataFinal |-> Some(formatYyyyMMdd(parseISO(f.dataFinal[1])))]
            ELSE [dataInicial |-> None, dataFinal |-> None]
    IN  [tamanhoPagina |-> 50,
         dataInicial |-> datas.dataInicial,
         dataFinal |-> datas.dataFinal,
         valorMinimo |-> IF f.valorMin # None /\ f.valorMin[1] # 0 THEN f.valorMin ELSE None,
         valorMaximo |-> IF f.valorMax # None /\ f.valorMax[1] # 0 THEN f.valorMax ELSE None]

-----------------------------------------------------------------------------
(* The two filters *)

RECURSIVE MapLower(_)
\* xs.map(x => x.toLowerCase())
MapLower(xs) ==
    IF xs = <<>> THEN <<>> ELSE <<toLowerCase(Head(xs))>> \o MapLower(Tail(xs))

RECURSIVE Flat(_)
\* Array.prototype.flat of an array of arrays
Flat(groups) ==
    IF groups = <<>> THEN <<>> ELSE Head(groups) \o Flat(Tail(groups))

\* Array.prototype.some(t => objeto.includes(t))
SomeIncluded(terms, objeto) == \E i \in 1..Len(terms) : includes(objeto, terms[i])

\* lic.objetoCompra?.toLowerCase() || ''
ObjetoLower(lic) ==
    IF lic.objetoCompra = None THEN <<>> ELSE toLowerCase(lic.objetoCompra[1])

\* KeepPNCP without the "no keywords" shortcut
KeepPNCPSemAtalho(lic, f) ==
    LET lowercasedKeywords == MapLower(f.palavrasChave)
        lowercasedBlacklist == MapLower(f.blacklist)
        objeto == ObjetoLower(lic)
        temKeyword == SomeIncluded(lowercasedKeywords, objeto)
        temBlacklist == Len(lowercasedBlacklist) > 0 /\ SomeIncluded(lowercasedBlacklist, objeto)
    IN  temKeyword /\ ~temBlacklist

\* KeepPNCP with the blacklist compared as written, not lower-cased
KeepPNCPBlacklistCase(lic, f) ==
    LET lowercasedKeywords == MapLower(f.palavrasChave)
        objeto == ObjetoLower(lic)
        temKeyword == Len(lowercasedKeywords) = 0 \/ SomeIncluded(lowercasedKeywords, objeto)
        temBlacklist == Len(f.blacklist) > 0 /\ SomeIncluded(f.blacklist, objeto)
    IN  temKeyword /\ ~temBlacklist

\* the predicate of allLicitacoes.filter, lines 141-146
KeepPNCP(lic, f) ==
    LET lowercasedKeywords == MapLower(f.palavrasChave)
        lowercasedBlacklist == MapLower(f.blacklist)
        objeto == ObjetoLower(lic)
        temKeyword == Len(lowercasedKeywords) = 0 \/ SomeIncluded(lowercasedKeywords, objeto)
        temBlacklist == Len(lowercasedBlacklist) > 0 /\ SomeIncluded(lowercasedBlacklist, objeto)
    IN  temKeyword /\ ~temBlacklist

\* finalResults with the kept records in reverse order
finalResultsInvertido(all, f) ==
    LET Keep(lic) == KeepPNCP(lic, f)
        kept == SelectSeq(all, Keep)
    IN  [i \in 1..Len(kept) |-> kept[Len(kept) + 1 - i]]

\* lines 138-146
finalResults(all, f) ==
    LET Keep(lic) == KeepPNCP(lic, f) IN SelectSeq(all, Keep)

\* the success envelope of lines 150-161
EnvelopeOk(results) ==
    [success |-> TRUE, status |-> 200, data |-> results,
     totalRegistros |-> Len(results), empty |-> Len(results) = 0]

\* no envelope yet
NoResposta ==
    [success |-> FALSE, status |-> 0, data |-> <<>>, totalRegistros |-> 0, empty |-> TRUE]

\* lines 60-63 of the route
searchTerms(f) ==
    LET NonEmpty(term) == Len(term) > 0
    IN  SelectSeq(MapLower(f.palavrasChave) \o MapLower(Flat(f.sinonimos)), NonEmpty)

\* x ?? 0
OrZero(v) == IF v = None THEN 0 ELSE v[1]

Max(a, b) == IF a >= b THEN a ELSE b

\* KeepPOST with the lower bound exclusive
KeepPOSTExclusivo(lic, f) ==
    LET terms == searchTerms(f)
        objetoOk == Len(terms) = 0 \/ SomeIncluded(terms, ObjetoLower(lic))
        valorParaComparar == Max(OrZero(lic.valorTotalEstimado), OrZero(lic.valorTotalHomologado))
        valorMinOk == f.valorMin = None \/ valorParaComparar > f.valorMin[1]
        valorMaxOk == f.valorMax = None \/ valorParaComparar <= f.valorMax[1]
    IN  objetoOk /\ valorMinOk /\ valorMaxOk

\* the predicate of licitacoesEncontradas.filter, lines 65-81 of the route
KeepPOST(lic, f) ==
    LET terms == searchTerms(f)
        objetoOk == Len(terms) = 0 \/ SomeIncluded(terms, ObjetoLower(lic))
        valorParaComparar == Max(OrZero(lic.valorTotalEstimado), OrZero(lic.valorTotalHomologado))
        valorMinOk == f.valorMin = None \/ valorParaComparar >= f.valorMin[1]
        valorMaxOk == f.valorMax = None \/ valorParaComparar <= f.valorMax[1]
    IN  objetoOk /\ valorMinOk /\ valorMaxOk

licitacoesFiltradas(found, f) ==
    LET Keep(lic) == KeepPOST(lic, f) IN SelectSeq(found, Keep)

\* The boundary filter's input.  The route calls a fetch function that is not
\* among the sources; the fetch layer's filtered result is taken as its input.
licitacoesEncontradas == resposta.data

-----------------------------------------------------------------------------
(* The upstream API, as far as the fetcher can see it *)

\* a Procurement Record: where it was served from, and the fields the filters read
Lic(cod, pag, k, campos) ==
    [cod |-> cod, pag |-> pag, k |-> k,
     objetoCompra |-> campos.objetoCompra,
     valorTotalEstimado |-> campos.valorTotalEstimado,
     valorTotalHomologado |-> campos.valorTotalHomologado]

\* the field values upstream records carry during a fetch
CamposFetch ==
    {[objetoCompra |-> Some(<<"A", "b">>), valorTotalEstimado |-> Some(3),
      valorTotalHomologado |-> None],
     [objetoCompra |-> Some(<<"c">>), valorTotalEstimado |-> None,
      valorTotalHomologado |-> Some(1)]}

\* every body.data array a page of modality cod can carry
PageDatas(cod, pag) ==
    UNION {{[k \in 1..n |-> Lic(cod, pag, k, ch[k])] : ch \in [1..n -> CamposFetch]}
           : n \in 0..MaxPageRecords}

\* every totalPaginas a body can carry (absent, or a number)
TotalPaginasVals == {None} \cup {Some(t) : t \in 0..MaxTotalPaginas}

QuietKinds == {"vazio", "um", "falha", "malformado"}

\* the body of a quiet modality that answers "um": one record, one page
QuietData(cod, pag) ==
    <<Lic(cod, pag, 1, [objetoCompra |-> Some(<<"A", "b">>),
                        valorTotalEstimado |-> Some(3),
                        valorTotalHomologado |-> None])>>

\* what the upstream may answer to the request in flight
UpstreamAllows(kind, data, tp) ==
    \/ curBusy
    \/ /\ quiet = kind
       /\ kind = "vazio" => data = <<>> /\ tp = Some(0)
       /\ kind = "um" => data = QuietData(modalidadesCodigos[idx], currentPage) /\ tp = Some(1)
       /\ kind \in {"falha", "malformado"} => data = <<>> /\ tp = None

-----------------------------------------------------------------------------
(* handleApiError *)

\* A JavaScript value read from an error or from a response body: its typeof
\* and its text.
Str(s) == [t |-> "string", v |-> s]
Num(s) == [t |-> "number", v |-> s]
Undefined == [t |-> "undefined", v |-> ""]

\* ToBoolean of such a value
Truthy(x) ==
    CASE x.t = "undefined" -> FALSE
      [] x.t = "string" -> x.v # ""
      [] x.t = "number" -> x.v # "0"
      [] OTHER -> TRUE

\* a || b
OrElse(a, b) == IF Truthy(a) THEN a ELSE b

Msg404 == "Recurso não encontrado na API. Verifique o endpoint ou parâmetros."
Msg429 == "Limite de requisições excedido na API. Tente novamente mais tarde."

\* the template string of line 128
DefaultMessage(cod, pag) ==
    "Erro ao buscar modalidade " \o ToString(cod) \o ", página " \o ToString(pag)
        \o ". Pulando para a próxima."

\* the body of an error response: an object with the fields error and
\* message (each possibly undefined), or something without fields
SemCorpo == [temObj |-> FALSE, error |-> Undefined, message |-> Undefined]
Corpo(e, m) == [temObj |-> TRUE, error |-> e, message |-> m]

\* an AxiosError that carries a response
ErroHTTP(st, body) ==
    [kind |-> "axios", temResposta |-> TRUE, status |-> st, data |-> body,
     message |-> Str("Request failed with status code " \o ToString(st))]

\* an AxiosError without a response (timeout, network)
ErroRede(msg) ==
    [kind |-> "axios", temResposta |-> FALSE, status |-> 0, data |-> SemCorpo,
     message |-> Str(msg)]

\* an Error that is not an AxiosError
ErroComum(msg) ==
    [kind |-> "error", temResposta |-> FALSE, status |-> 0, data |-> SemCorpo,
     message |-> Str(msg)]

\* a thrown value that is not an Error
ValorLancado ==
    [kind |-> "outro", temResposta |-> FALSE, status |-> 0, data |-> SemCorpo,
     message |-> Undefined]

\* HandleApiError with the status left at 500
HandleApiErrorSempre500(error, defaultMessage) ==
    LET responseError ==
            IF error.temResposta /\ error.data.temObj
            THEN OrElse(error.data.error, error.data.message) ELSE Undefined
    IN  [success |-> FALSE,
         error |-> IF error.kind = "axios"
                   THEN (IF responseError.t = "string" THEN responseError
                         ELSE OrElse(error.message, Str(defaultMessage)))
                   ELSE IF error.kind = "error" THEN error.message
                   ELSE Str(defaultMessage),
         status |-> 500]

\* lines 24-55
HandleApiError(error, defaultMessage) ==
    IF error.kind = "axios"
    THEN LET status == IF error.temResposta /\ error.status # 0 THEN error.status ELSE 500
             responseError ==
                 IF error.temResposta /\ error.data.temObj
                 THEN OrElse(error.data.error, error.data.message) ELSE Undefined
             message == IF responseError.t = "string" THEN responseError
                        ELSE OrElse(error.message, Str(defaultMessage))
         IN  [success |-> FALSE,
              error |-> IF status = 404 THEN Str(Msg404)
                        ELSE IF status = 429 THEN Str(Msg429)
                        ELSE message,
              status |-> status]
    ELSE IF error.kind = "error"
    THEN [success |-> FALSE, error |-> error.message, status |-> 500]
    ELSE [success |-> FALSE, error |-> Str(defaultMessage), status |-> 500]

\* the entry the history keeps of one call of handleApiError by the loop
Classificado(i, cod, pag, err) ==
    [i |-> i, cod |-> cod, pag |-> pag, err |-> err,
     msg |-> DefaultMessage(cod, pag),
     ret |-> HandleApiError(err, DefaultMessage(cod, pag))]

-----------------------------------------------------------------------------
(* buscarLicitacoesPNCP *)

DelayMs == 200
\* granularity of the clock while a delay runs
TickMs == 100

LogIssue(log, i, cod, p) ==
    Append(log, [i |-> i, cod |-> cod, pag |-> p, em |-> slept,
                 res |-> "pendente", tp |-> None, data |-> <<>>])

LogSettle(log, res, tp, data) ==
    [log EXCEPT ![Len(log)] = [@ EXCEPT !.res = res, !.tp = tp, !.data = data]]

\* line 114: pncpApi.get is called and awaited
Emitir(i, p, codes, log, settled) ==
    /\ pc' = "await"
    /\ inflight' = settled + 1
    /\ reqLog' = LogIssue(log, i, codes[i], p)
    /\ timer' = 0

\* line 133: the while loop is left and delay(200) is awaited
Pausar(log, settled) ==
    /\ pc' = "delay"
    /\ inflight' = settled
    /\ reqLog' = log
    /\ timer' = DelayMs

\* lines 136-161: the loop is over, the aggregate is filtered and returned
Concluir(agg) ==
    /\ pc' = "done"
    /\ resposta' = EnvelopeOk(finalResults(agg, filters))
    /\ UNCHANGED <<idx, currentPage, totalPages, inflight, reqLog, timer,
                   busyLeft, curBusy>>

\* lines 106-114: the for loop takes its next code, or ends
ProximaModalidade(i, codes, agg) ==
    IF i <= Len(codes)
    THEN /\ idx' = i
         /\ currentPage' = 1
         /\ totalPages' = 1
         /\ Emitir(i, 1, codes, reqLog, inflight)
         /\ \E b \in BOOLEAN :
               /\ b => busyLeft > 0
               /\ curBusy' = b
               /\ busyLeft' = IF b THEN busyLeft - 1 ELSE busyLeft
         /\ UNCHANGED resposta
    ELSE Concluir(agg)

\* lines 75-114: the call, up to its first await
Chamar ==
    /\ pc = "start"
    /\ baseParams' = BuildBaseParams(filters)
    /\ modalidadesCodigos' = ResolveModalidades(filters.modalidades)
    /\ ProximaModalidade(1, modalidadesCodigos', allLicitacoes)
    /\ UNCHANGED limiteVars
    /\ UNCHANGED <<filters, allLicitacoes, erros, slept, filtradas, quiet>>

\* RespostaOk with the loop test "currentPage < totalPages"
RespostaOkOffByOne(data, tp) ==
    /\ pc = "await"
    /\ UpstreamAllows(IF quiet = "um" THEN "um" ELSE "vazio", data, tp)
    /\ LET temTotal == tp # None /\ tp[1] > 0
           log == LogSettle(reqLog, "ok", tp, data)
       IN  /\ allLicitacoes' = allLicitacoes \o data
           /\ IF currentPage = 1 /\ ~temTotal
              THEN /\ Pausar(log, inflight - 1)
                   /\ UNCHANGED <<currentPage, totalPages>>
              ELSE /\ totalPages' = IF currentPage = 1 THEN tp[1] ELSE totalPages
                   /\ currentPage' = currentPage + 1
                   /\ IF currentPage' < totalPages'
                      THEN Emitir(idx, currentPage', modalidadesCodigos, log, inflight - 1)
                      ELSE Pausar(log, inflight - 1)
    /\ UNCHANGED limiteVars
    /\ UNCHANGED <<filters, baseParams, modalidadesCodigos, idx, erros, slept,
                   resposta, filtradas, quiet, busyLeft, curBusy>>

\* RespostaOk that keeps the records of page 1 only when it reports pages
RespostaOkSemTotalDescarta(data, tp) ==
    /\ pc = "await"
    /\ UpstreamAllows(IF quiet = "um" THEN "um" ELSE "vazio", data, tp)
    /\ LET temTotal == tp # None /\ tp[1] > 0
           log == LogSettle(reqLog, "ok", tp, data)
       IN  IF currentPage = 1 /\ ~temTotal
           THEN /\ Pausar(log, inflight - 1)
                /\ UNCHANGED <<currentPage, totalPages, allLicitacoes>>
           ELSE /\ allLicitacoes' = allLicitacoes \o data
                /\ totalPages' = IF currentPage = 1 THEN tp[1] ELSE totalPages
                /\ currentPage' = currentPage + 1
                /\ IF currentPage' <= totalPages'
                   THEN Emitir(idx, currentPage', modalidadesCodigos, log, inflight - 1)
                   ELSE Pausar(log, inflight - 1)
    /\ UNCHANGED limiteVars
    /\ UNCHANGED <<filters, baseParams, modalidadesCodigos, idx, erros, slept,
                   resposta, filtradas, quiet, busyLeft, curBusy>>

\* lines 115-123 and 131, 111: a 2xx response whose body.data is an array
RespostaOk(data, tp) ==
    /\ pc = "await"
    /\ UpstreamAllows(IF quiet = "um" THEN "um" ELSE "vazio", data, tp)
    /\ LET temTotal == tp # None /\ tp[1] > 0
           log == LogSettle(reqLog, "ok", tp, data)
       IN  /\ allLicitacoes' = allLicitacoes \o data
           /\ IF currentPage = 1 /\ ~temTotal
              THEN /\ Pausar(log, inflight - 1)
                   /\ UNCHANGED <<currentPage, totalPages>>
              ELSE /\ totalPages' = IF currentPage = 1 THEN tp[1] ELSE totalPages
                   /\ currentPage' = currentPage + 1
                   /\ IF currentPage' <= totalPages'
                      THEN Emitir(idx, currentPage', modalidadesCodigos, log, inflight - 1)
                      ELSE Pausar(log, inflight - 1)
    /\ UNCHANGED limiteVars
    /\ UNCHANGED <<filters, baseParams, modalidadesCodigos, idx, erros, slept,
                   resposta, filtradas, quiet, busyLeft, curBusy>>

\* RespostaMalformada that hands the response to the error classifier
RespostaMalformadaComoErro(tp) ==
    /\ pc = "await"
    /\ UpstreamAllows("malformado", <<>>, tp)
    /\ erros' = Append(erros, Classificado(idx, modalidadesCodigos[idx], currentPage,
                                           ErroComum("malformed response")))
    /\ Pausar(LogSettle(reqLog, "malformado", tp, <<>>), inflight - 1)
    /\ UNCHANGED limiteVars
    /\ UNCHANGED <<filters, baseParams, modalidadesCodigos, idx, currentPage,
                   totalPages, allLicitacoes, slept, resposta, filtradas,
                   quiet, busyLeft, curBusy>>

\* lines 124-126: a 2xx response without an array in body.data
RespostaMalformada(tp) ==
    /\ pc = "await"
    /\ UpstreamAllows("malformado", <<>>, tp)
    /\ Pausar(LogSettle(reqLog, "malformado", tp, <<>>), inflight - 1)
    /\ UNCHANGED limiteVars
    /\ UNCHANGED <<filters, baseParams, modalidadesCodigos, idx, currentPage,
                   totalPages, allLicitacoes, erros, slept, resposta, filtradas,
                   quiet, busyLeft, curBusy>>

\* RespostaFalha that leaves the for loop too: the failure ends the fetch
RespostaFalhaAborta(corpo, err) ==
    /\ pc = "await"
    /\ UpstreamAllows("falha", corpo, None)
    /\ erros' = Append(erros, Classificado(idx, modalidadesCodigos[idx], currentPage, err))
    /\ pc' = "done"
    /\ inflight' = inflight - 1
    /\ reqLog' = LogSettle(reqLog, "falha", None, corpo)
    /\ resposta' = EnvelopeOk(finalResults(allLicitacoes, filters))
    /\ UNCHANGED limiteVars
    /\ UNCHANGED <<filters, baseParams, modalidadesCodigos, idx, currentPage,
                   totalPages, allLicitacoes, timer, slept, filtradas,
                   quiet, busyLeft, curBusy>>

\* RespostaFalha that throws away what was collected so far
RespostaFalhaDescarta(corpo, err) ==
    /\ pc = "await"
    /\ UpstreamAllows("falha", corpo, None)
    /\ erros' = Append(erros, Classificado(idx, modalidadesCodigos[idx], currentPage, err))
    /\ allLicitacoes' = <<>>
    /\ Pausar(LogSettle(reqLog, "falha", None, corpo), inflight - 1)
    /\ UNCHANGED limiteVars
    /\ UNCHANGED <<filters, baseParams, modalidadesCodigos, idx, currentPage,
                   totalPages, slept, resposta, filtradas,
                   quiet, busyLeft, curBusy>>

\* lines 127-130: the request rejects (transport error or non-2xx); corpo is
\* whatever the error response carried
RespostaFalha(corpo, err) ==
    /\ pc = "await"
    /\ UpstreamAllows("falha", corpo, None)
    /\ erros' = Append(erros, Classificado(idx, modalidadesCodigos[idx], currentPage, err))
    /\ Pausar(LogSettle(reqLog, "falha", None, corpo), inflight - 1)
    /\ UNCHANGED limiteVars
    /\ UNCHANGED <<filters, baseParams, modalidadesCodigos, idx, currentPage,
                   totalPages, allLicitacoes, slept, resposta, filtradas,
                   quiet, busyLeft, curBusy>>

\* Tick with a timer that never fires
TickParado ==
    /\ pc = "delay"
    /\ timer > 0
    /\ UNCHANGED vars

\* time passes while delay(200) runs
Tick ==
    /\ pc = "delay"
    /\ timer > 0
    /\ LET passo == IF timer < TickMs THEN timer ELSE TickMs
       IN  timer' = timer - passo /\ slept' = slept + passo
    /\ UNCHANGED limiteVars
    /\ UNCHANGED <<filters, pc, baseParams, modalidadesCodigos, idx, currentPage,
                   totalPages, allLicitacoes, inflight, reqLog, erros, resposta,
                   filtradas, quiet, busyLeft, curBusy>>

\* DelayElapsed with delay(200) not awaited
DelayNaoAguardado ==
    /\ pc = "delay"
    /\ ProximaModalidade(idx + 1, modalidadesCodigos, allLicitacoes)
    /\ UNCHANGED limiteVars
    /\ UNCHANGED <<filters, baseParams, modalidadesCodigos, allLicitacoes, erros,
                   slept, filtradas, quiet>>

\* lines 133, 106: the delay is over and the for loop goes on (or ends)
DelayElapsed ==
    /\ pc = "delay"
    /\ timer = 0
    /\ ProximaModalidade(idx + 1, modalidadesCodigos, allLicitacoes)
    /\ UNCHANGED limiteVars
    /\ UNCHANGED <<filters, baseParams, modalidadesCodigos, allLicitacoes, erros,
                   slept, filtradas, quiet>>

\* lines 56-84 of the route: the boundary filter and the 200 response
FiltrarPOST ==
    /\ pc = "done"
    /\ resposta.success
    /\ filtradas' = licitacoesFiltradas(licitacoesEncontradas, filters)
    /\ pc' = "posted"
    /\ UNCHANGED limiteVars
    /\ UNCHANGED <<filters, baseParams, modalidadesCodigos, idx, currentPage,
                   totalPages, allLicitacoes, inflight, reqLog, erros, timer, slept,
                   resposta, quiet, busyLeft, curBusy>>

-----------------------------------------------------------------------------
(* The rate limiter and the POST handler up to the fetch *)

RATE_LIMIT_WINDOW == 60000
MAX_REQUESTS_PER_IP == 20

\* s.split(',')[0]
PrimeiroCampo(s) ==
    LET i == indexOf(s, <<",">>) IN IF i = 0 THEN s ELSE SubSeq(s, 1, i - 1)

Unknown == <<"u", "n", "k", "n", "o", "w", "n">>

\* line 25: the client key, from the x-forwarded-for header (absent: <<>>)
ClientIp(header) ==
    IF header = None THEN Unknown ELSE trim(PrimeiroCampo(header[1]))

\* the x-forwarded-for headers drawn
Cabecalhos ==
    {None, Some(<<"a">>), Some(<<" ", "a", " ">>), Some(<<"a", ",", " ", "b">>)}

Chaves == {ClientIp(h) : h \in Cabecalhos}

\* the instants at which Date.now() is read
Instantes == {0, 60000, 60001, 120002}

\* checkRateLimit that lets the request at the cap through
checkRateLimitFolgado(counts, ip, t) ==
    LET entry == counts[ip]
    IN  IF entry = None \/ t > entry[1].resetTime
        THEN [ok |-> TRUE,
              counts |-> [counts EXCEPT ![ip] =
                             Some([count |-> 1, resetTime |-> t + RATE_LIMIT_WINDOW])]]
        ELSE IF entry[1].count > MAX_REQUESTS_PER_IP
        THEN [ok |-> FALSE, counts |-> counts]
        ELSE [ok |-> TRUE,
              counts |-> [counts EXCEPT ![ip] =
                             Some([entry[1] EXCEPT !.count = @ + 1])]]

\* checkRateLimit whose rejection starts the window anew
checkRateLimitEstende(counts, ip, t) ==
    LET entry == counts[ip]
    IN  IF entry = None \/ t > entry[1].resetTime
        THEN [ok |-> TRUE,
              counts |-> [counts EXCEPT ![ip] =
                             Some([count |-> 1, resetTime |-> t + RATE_LIMIT_WINDOW])]]
        ELSE IF entry[1].count >= MAX_REQUESTS_PER_IP
        THEN [ok |-> FALSE,
              counts |-> [counts EXCEPT ![ip] =
                             Some([entry[1] EXCEPT !.resetTime = t + RATE_LIMIT_WINDOW])]]
        ELSE [ok |-> TRUE,
              counts |-> [counts EXCEPT ![ip] =
                             Some([entry[1] EXCEPT !.count = @ + 1])]]

\* checkRateLimit whose window is over already at its end
checkRateLimitExpiraNoFim(counts, ip, t) ==
    LET entry == counts[ip]
    IN  IF entry = None \/ t >= entry[1].resetTime
        THEN [ok |-> TRUE,
              counts |-> [counts EXCEPT ![ip] =
                             Some([count |-> 1, resetTime |-> t + RATE_LIMIT_WINDOW])]]
        ELSE IF entry[1].count >= MAX_REQUESTS_PER_IP
        THEN [ok |-> FALSE, counts |-> counts]
        ELSE [ok |-> TRUE,
              counts |-> [counts EXCEPT ![ip] =
                             Some([entry[1] EXCEPT !.count = @ + 1])]]

\* lines 12-22: the value returned and the Map afterwards
checkRateLimit(counts, ip, t) ==
    LET entry == counts[ip]
    IN  IF entry = None \/ t > entry[1].resetTime
        THEN [ok |-> TRUE,
              counts |-> [counts EXCEPT ![ip] =
                             Some([count |-> 1, resetTime |-> t + RATE_LIMIT_WINDOW])]]
        ELSE IF entry[1].count >= MAX_REQUESTS_PER_IP
        THEN [ok |-> FALSE, counts |-> counts]
        ELSE [ok |-> TRUE,
              counts |-> [counts EXCEPT ![ip] =
                             Some([entry[1] EXCEPT !.count = @ + 1])]]

\* most admitted requests handled at the same time
MaxEmCurso == 2

\* the awaits of the handler: req.json(), extractFilters, the fetch
Etapas == {"json", "extract", "fetch"}

EmCursoTotal == emCurso["json"] + emCurso["extract"] + emCurso["fetch"]

\* a response leaves the server (ip is read by the handler for the 429 only)
Responder(ip, status) ==
    ultima' = [chave |-> ip, status |-> status, seq |-> 1 - ultima.seq]

\* the history of the window of one key, after a request of it at time t was
\* admitted (ok) or refused with the given status
JanelaApos(j, t, ok, status) ==
    LET expirada == j.inicio < 0 \/ t > j.inicio + RATE_LIMIT_WINDOW
    IN  IF ok
        THEN IF expirada THEN [j EXCEPT !.inicio = t, !.n = 1]
             ELSE [j EXCEPT !.n = @ + 1]
        ELSE [j EXCEPT !.indevida = @ \/ expirada \/ j.n < MAX_REQUESTS_PER_IP
                                      \/ status # 429]

\* lines 24-32: a request arrives; the handler runs up to its first await or
\* to the 429 response
POST(header) ==
    LET ip == ClientIp(header)
        r == checkRateLimit(requestCounts, ip, now)
    IN  /\ requestCounts' = r.counts
        /\ IF r.ok
           THEN /\ EmCursoTotal < MaxEmCurso
                /\ emCurso' = [emCurso EXCEPT !["json"] = @ + 1]
                /\ UNCHANGED ultima
                /\ janela' = [janela EXCEPT ![ip] = JanelaApos(@, now, TRUE, 0)]
           ELSE /\ Responder(ip, 429)
                /\ UNCHANGED emCurso
                /\ janela' = [janela EXCEPT ![ip] = JanelaApos(@, now, FALSE, 429)]
        /\ UNCHANGED now
        /\ UNCHANGED fetchVars

\* lines 32-43: the body was read and holds a question; extractFilters is awaited
JsonOk ==
    /\ emCurso["json"] > 0
    /\ emCurso' = [emCurso EXCEPT !["json"] = @ - 1, !["extract"] = @ + 1]
    /\ UNCHANGED <<requestCounts, now, ultima, janela>>
    /\ UNCHANGED fetchVars

\* lines 34-40: the body is no JSON, or holds no question
JsonInvalido ==
    /\ emCurso["json"] > 0
    /\ emCurso' = [emCurso EXCEPT !["json"] = @ - 1]
    /\ Responder(<<>>, 400)
    /\ UNCHANGED <<requestCounts, now, janela>>
    /\ UNCHANGED fetchVars

\* lines 43-46: the filters were extracted; the fetch is awaited
ExtractOk ==
    /\ emCurso["extract"] > 0
    /\ emCurso' = [emCurso EXCEPT !["extract"] = @ - 1, !["fetch"] = @ + 1]
    /\ UNCHANGED <<requestCounts, now, ultima, janela>>
    /\ UNCHANGED fetchVars

\* lines 43, 86-90: extractFilters threw
ExtractFalha ==
    /\ emCurso["extract"] > 0
    /\ emCurso' = [emCurso EXCEPT !["extract"] = @ - 1]
    /\ Responder(<<>>, 500)
    /\ UNCHANGED <<requestCounts, now, janela>>
    /\ UNCHANGED fetchVars

\* lines 46-90: the fetch settled and the handler answers (200 after the
\* boundary filter, 500 after a failure)
FetchFim(status) ==
    /\ emCurso["fetch"] > 0
    /\ emCurso' = [emCurso EXCEPT !["fetch"] = @ - 1]
    /\ Responder(<<>>, status)
    /\ UNCHANGED <<requestCounts, now, janela>>
    /\ UNCHANGED fetchVars

\* time passes
Relogio ==
    /\ \E t \in Instantes : t > now /\ now' = t
    /\ UNCHANGED <<requestCounts, emCurso, ultima, janela>>
    /\ UNCHANGED fetchVars

\* the limiter before the first request
InitLimite ==
    /\ requestCounts = [k \in Chaves |-> None]
    /\ now = 0
    /\ emCurso = [e \in Etapas |-> 0]
    /\ ultima = [chave |-> <<>>, status |-> 0, seq |-> 0]
    /\ janela = [k \in Chaves |-> [inicio |-> -1, n |-> 0, indevida |-> FALSE]]

-----------------------------------------------------------------------------
(* The fetch specification *)

\* a name no key of the table matches
NomeDesconhecido == <<"x", "y", "z">>

\* the modality names drawn for a fetch
NomesFetch == {Nome6, Nome1, Nome8, NomeDesconhecido, ChaveHerdada}

SeqsUpTo(S, n) == UNION {[1..k -> S] : k \in 0..n}

FiltersFetch ==
    [palavrasChave : {<<>>, <<<<"a">>>>},
     sinonimos : {<<>>},
     blacklist : {<<>>, <<<<"C">>>>},
     valorMin : {None},
     valorMax : {None},
     modalidades : SeqsUpTo(NomesFetch, MaxNames),
     dataInicial : {None},
     dataFinal : {None}]

\* the failure drawn for a fetch: the upstream is unavailable
ErrosFetch == {ErroHTTP(503, SemCorpo)}

InitCall ==
    /\ pc = "start"
    /\ baseParams = [tamanhoPagina |-> 50, dataInicial |-> None, dataFinal |-> None,
                     valorMinimo |-> None, valorMaximo |-> None]
    /\ modalidadesCodigos = <<>>
    /\ idx = 0
    /\ currentPage = 1
    /\ totalPages = 1
    /\ allLicitacoes = <<>>
    /\ inflight = 0
    /\ reqLog = <<>>
    /\ erros = <<>>
    /\ timer = 0
    /\ slept = 0
    /\ resposta = NoResposta
    /\ filtradas = <<>>
    /\ curBusy = FALSE
    /\ InitLimite

Init ==
    /\ filters \in FiltersFetch
    /\ quiet \in QuietKinds
    /\ busyLeft = MaxBusy
    /\ InitCall

Next ==
    \/ Chamar
    \/ /\ pc = "await"
       /\ \E data \in PageDatas(modalidadesCodigos[idx], currentPage),
             tp \in TotalPaginasVals : RespostaOk(data, tp)
    \/ \E tp \in TotalPaginasVals : RespostaMalformada(tp)
    \/ /\ pc = "await"
       /\ \E corpo \in PageDatas(modalidadesCodigos[idx], currentPage),
             err \in ErrosFetch : RespostaFalha(corpo, err)
    \/ Tick
    \/ DelayElapsed
    \/ FiltrarPOST

Spec == Init /\ [][Next]_vars

-----------------------------------------------------------------------------
(* The fetch specification with its scheduling: every request in flight   *)
(* settles (it returns or fails, at the latest by the client's timeout of   *)
(* line 21) and every timer set by delay() fires.                           *)

\* the request in flight settles
Responde ==
    /\ pc = "await"
    /\ \/ \E data \in PageDatas(modalidadesCodigos[idx], currentPage),
             tp \in TotalPaginasVals : RespostaOk(data, tp)
       \/ \E tp \in TotalPaginasVals : RespostaMalformada(tp)
       \/ \E corpo \in PageDatas(modalidadesCodigos[idx], currentPage),
             err \in ErrosFetch : RespostaFalha(corpo, err)

Fairness ==
    /\ WF_vars(Responde)
    /\ WF_vars(Tick)
    /\ WF_vars(DelayElapsed)

SpecVivo == Init /\ [][Next]_vars /\ Fairness

-----------------------------------------------------------------------------
(* The resolver specification: one name per call, in every spelling *)

Maiusculas ==
    {"A","B","C","D","E","F","G","I","L","M","N","O","P","Q","R","S","T","U","V",
     "X","Y","Z","Á","Ã","Ç","É","Ê","Ô"}

ToUpperChar(c) ==
    IF \E u \in Maiusculas : ToLowerChar(u) = c
    THEN CHOOSE u \in Maiusculas : ToLowerChar(u) = c
    ELSE c

toUpperCase(s) == [i \in 1..Len(s) |-> ToUpperChar(s[i])]

Capitalizada(s) == [i \in 1..Len(s) |-> IF i = 1 THEN ToUpperChar(s[i]) ELSE s[i]]

\* the spellings of the table's name of code c that differ in letter case only
Grafias(c) == {NomeDe[c], toUpperCase(NomeDe[c]), Capitalizada(NomeDe[c])}

\* the names drawn: every spelling of every table name, the same followed by
\* " de licitação" or padded with blanks, and names outside the table
NomesResolver ==
    UNION {Grafias(c) \cup {g \o SufixoLicitacao : g \in Grafias(c)}
                      \cup {<<" ">> \o NomeDe[c] \o <<" ">>} : c \in 1..13}
      \cup {NomeDesconhecido, ChaveHerdada, <<>>}

FiltersBase ==
    [palavrasChave |-> <<>>, sinonimos |-> <<>>, blacklist |-> <<>>,
     valorMin |-> None, valorMax |-> None, modalidades |-> <<>>,
     dataInicial |-> None, dataFinal |-> None]

InitResolver ==
    /\ \E nome \in NomesResolver : filters = [FiltersBase EXCEPT !.modalidades = <<nome>>]
    /\ quiet \in QuietKinds
    /\ busyLeft = MaxBusy
    /\ InitCall

NextResolver == Chamar

SpecResolver == InitResolver /\ [][NextResolver]_vars

-----------------------------------------------------------------------------
(* The error specification: every request of a call fails, in every way *)

StatusHTTP == {400, 404, 429, 500, 503}

\* the values a field of an error body holds
CamposErro == {Undefined, Str("upstream error"), Str(""), Num("7")}
CamposMensagem == {Undefined, Str("upstream message"), Num("0")}

ErrosTodos ==
    {ErroHTTP(st, SemCorpo) : st \in StatusHTTP}
      \cup {ErroHTTP(st, Corpo(e, m)) : st \in StatusHTTP, e \in CamposErro, m \in CamposMensagem}
      \cup {ErroRede("timeout of 60000ms exceeded"), ErroRede("Network Error")}
      \cup {ErroComum("Invalid array length"), ErroComum("")}
      \cup {ValorLancado}

InitErro ==
    /\ \E nomes \in {<<Nome3>>, <<Nome6, Nome1>>} :
          filters = [FiltersBase EXCEPT !.modalidades = nomes]
    /\ quiet = "falha"
    /\ busyLeft = 0
    /\ InitCall

NextErro ==
    \/ Chamar
    \/ \E err \in ErrosTodos : RespostaFalha(<<>>, err)
    \/ Tick
    \/ DelayElapsed

SpecErro == InitErro /\ [][NextErro]_vars

-----------------------------------------------------------------------------
(* The rate-limiter specification: requests of two clients arrive at any   *)
(* time and are handled concurrently                                        *)

InitPOST ==
    /\ filters = FiltersBase
    /\ quiet = "vazio"
    /\ busyLeft = 0
    /\ InitCall

NextLimite ==
    \/ \E h \in Cabecalhos : POST(h)
    \/ JsonOk
    \/ JsonInvalido
    \/ ExtractOk
    \/ ExtractFalha
    \/ \E status \in {200, 500} : FetchFim(status)
    \/ Relogio

SpecLimite == InitPOST /\ [][NextLimite]_vars

-----------------------------------------------------------------------------
(* The date-window specification *)

Anos == 2023..(2023 + YearSpan)

\* the calendar dates drawn: the ends of the short, the leap and the long months
DatasISO ==
    {<<y, m, d>> : y \in Anos, m \in {1, 2, 12}, d \in {1, 28, 29, 31}}
      \cap {dt \in Anos \X (1..12) \X (1..31) : dt[3] <= DaysInMonth(dt[1], dt[2])}

OptDatas == {None} \cup {Some(dt) : dt \in DatasISO}

InitDatas ==
    /\ \E di \in OptDatas, df \in OptDatas :
          filters = [FiltersBase EXCEPT !.modalidades = <<Nome3>>,
                                        !.dataInicial = di, !.dataFinal = df]
    /\ quiet = "vazio"
    /\ busyLeft = 0
    /\ InitCall

NextDatas == Chamar

SpecDatas == InitDatas /\ [][NextDatas]_vars

-----------------------------------------------------------------------------
(* The filter specification: the call of one modality whose single page has *)
(* been fetched and whose delay has run out; the loop ends, the aggregate   *)
(* is filtered and the route filters the result again.                      *)

\* the field values of the records drawn
CamposFiltro ==
    [objetoCompra : {None, Some(<<"A", "b">>), Some(<<"b", "C">>)},
     valorTotalEstimado : {None, Some(3)},
     valorTotalHomologado : {None, Some(1), Some(5)}]

\* the raw aggregates drawn: the records of page 1 of modality 3
Agregados ==
    UNION {{[k \in 1..n |-> Lic(3, 1, k, ch[k])] : ch \in [1..n -> CamposFiltro]}
           : n \in 0..MaxAggregate}

\* the Filter Sets drawn (terms are non-empty strings)
FiltersFiltro ==
    [palavrasChave : SeqsUpTo({<<"a">>, <<"B">>}, 2),
     sinonimos : {<<>>, << << <<"C">> >> >>, << <<>>, << <<"a">> >> >>},
     blacklist : {<<>>, <<<<"A">>>>, <<<<"c">>, <<"a", "B">>>>},
     valorMin : {None, Some(0), Some(3)},
     valorMax : {None, Some(3)},
     modalidades : {<<Nome3>>},
     dataInicial : {None},
     dataFinal : {None}]

InitFiltro ==
    /\ filters \in FiltersFiltro
    /\ allLicitacoes \in Agregados
    /\ pc = "delay"
    /\ baseParams = BuildBaseParams(filters)
    /\ modalidadesCodigos = <<3>>
    /\ idx = 1
    /\ currentPage = 2
    /\ totalPages = 1
    /\ inflight = 0
    /\ reqLog = <<[i |-> 1, cod |-> 3, pag |-> 1, em |-> 0, res |-> "ok",
                   tp |-> Some(1), data |-> allLicitacoes]>>
    /\ erros = <<>>
    /\ timer = 0
    /\ slept = DelayMs
    /\ resposta = NoResposta
    /\ filtradas = <<>>
    /\ quiet = "um"
    /\ busyLeft = 0
    /\ curBusy = TRUE
    /\ InitLimite

NextFiltro ==
    \/ DelayElapsed
    \/ FiltrarPOST

SpecFiltro == InitFiltro /\ [][NextFiltro]_vars

-----------------------------------------------------------------------------
(* Claims about the paginated fetcher (specification Spec) *)

Terminou == pc \in {"done", "posted"}

\* the requests of the i-th code of the sequence, in the order they were issued
Visita(i) ==
    LET Da(e) == e.i = i IN SelectSeq(reqLog, Da)

\* the i-th code is done with: the loop has left it
Encerrada(i) == i < idx \/ (i = idx /\ pc \in {"delay", "done", "posted"})

RECURSIVE OkData(_)
\* the records of the successfully fetched pages of a log, in order
OkData(log) ==
    IF log = <<>> THEN <<>>
    ELSE (IF Head(log).res = "ok" THEN Head(log).data ELSE <<>>) \o OkData(Tail(log))

\* C1: after a failed page request of a modality no further page of that
\* modality is requested, and once the call has returned page 1 of every
\* code that follows it in the code sequence has been requested.
C1_FalhaContida ==
    \A j \in 1..Len(reqLog) :
        reqLog[j].res = "falha" =>
            /\ \A j2 \in (j + 1)..Len(reqLog) : reqLog[j2].i # reqLog[j].i
            /\ Terminou =>
                  \A i2 \in (reqLog[j].i + 1)..Len(modalidadesCodigos) :
                      \E j2 \in (j + 1)..Len(reqLog) :
                          /\ reqLog[j2].i = i2
                          /\ reqLog[j2].pag = 1
                          /\ reqLog[j2].cod = modalidadesCodigos[i2]

\* a call has returned after a request of a code that is not the last failed
C1_Witness ==
    /\ pc = "done"
    /\ \E j \in 1..Len(reqLog) :
          /\ reqLog[j].res = "falha"
          /\ reqLog[j].i < Len(modalidadesCodigos)
          /\ reqLog[Len(reqLog)].i > reqLog[j].i

\* C2: whatever requests fail, the call returns success: true, and the raw
\* aggregate is exactly the records of the pages fetched successfully, in
\* order (earlier pages of a modality that failed later included, nothing of
\* a failed request); a modality whose first page failed contributes nothing.
C2_AgregadoParcial ==
    /\ allLicitacoes = OkData(reqLog)
    /\ Terminou => resposta.success /\ resposta.status = 200
    /\ \A j \in 1..Len(reqLog) :
          (reqLog[j].pag = 1 /\ reqLog[j].res = "falha") =>
              OkData(Visita(reqLog[j].i)) = <<>>

\* a call has returned after page 2 of a modality failed with records in the
\* error body, page 1 of it having delivered a record
C2_Witness ==
    /\ pc = "done"
    /\ \E j \in 2..Len(reqLog) :
          /\ reqLog[j].res = "falha"
          /\ reqLog[j].pag = 2
          /\ reqLog[j].data # <<>>
          /\ reqLog[j - 1].res = "ok"
          /\ reqLog[j - 1].data # <<>>

\* C3: the pages of one modality are requested as 1, 2, 3, ... each once, a
\* page only after the page before it returned successfully; when page 1
\* reports N >= 1 pages no page beyond N is requested, and a modality whose
\* requests all succeeded well-formed has had exactly the pages 1..N requested.
C3_PaginasEmOrdem ==
    \A i \in 1..idx :
        LET es == Visita(i)
        IN  /\ \A j \in 1..Len(es) : es[j].pag = j
            /\ \A j \in 1..(Len(es) - 1) : es[j].res = "ok"
            /\ (Len(es) >= 1 /\ es[1].res = "ok" /\ es[1].tp # None /\ es[1].tp[1] >= 1) =>
                  /\ Len(es) <= es[1].tp[1]
                  /\ (Encerrada(i) /\ \A j \in 1..Len(es) : es[j].res = "ok") =>
                        Len(es) = es[1].tp[1]

\* a modality is done with whose page 1 reported the largest page count and
\* whose requests all succeeded
C3_Witness ==
    \E i \in 1..idx :
        /\ Encerrada(i)
        /\ Visita(i)[1].tp = Some(MaxTotalPaginas)
        /\ Len(Visita(i)) = MaxTotalPaginas
        /\ \A j \in 1..Len(Visita(i)) : Visita(i)[j].res = "ok"

\* C4: at most one request is in flight; the codes are queried in the order
\* of the code sequence, all requests of one code before those of the next;
\* a request of the i-th code is issued only after i - 1 delays have run out.
C4_Sequencial ==
    /\ inflight \in {0, 1}
    /\ inflight = Cardinality({j \in 1..Len(reqLog) : reqLog[j].res = "pendente"})
    /\ \A j \in 1..Len(reqLog) :
          /\ reqLog[j].res = "pendente" => j = Len(reqLog)
          /\ reqLog[j].cod = modalidadesCodigos[reqLog[j].i]
          /\ reqLog[j].em >= DelayMs * (reqLog[j].i - 1)
          /\ j = 1 => reqLog[j].i = 1
          /\ j > 1 => reqLog[j].i \in {reqLog[j - 1].i, reqLog[j - 1].i + 1}

\* the first request of the second code is in flight
C4_Witness ==
    /\ pc = "await"
    /\ inflight = 1
    /\ idx = 2
    /\ slept = DelayMs

-----------------------------------------------------------------------------
(* Claims about the modality resolver *)

\* s without a trailing " de licitação"
SemSufixo(s) ==
    LET n == Len(s) - Len(SufixoLicitacao)
    IN  IF n >= 0 /\ SubSeq(s, n + 1, Len(s)) = SufixoLicitacao THEN SubSeq(s, 1, n) ELSE s

\* the codes whose table name the given name is, whatever its letter case and
\* with or without a trailing " de licitação"
CodigosDoNome(nome) ==
    {c \in 1..13 : NomeDe[c] = toLowerCase(nome) \/ NomeDe[c] = SemSufixo(toLowerCase(nome))}

RECURSIVE CodigosReconhecidos(_)
\* the codes of the recognised names of a list, in the order of the list
CodigosReconhecidos(nomes) ==
    IF nomes = <<>> THEN <<>>
    ELSE (IF CodigosDoNome(Head(nomes)) = {} THEN <<>>
          ELSE <<CHOOSE c \in CodigosDoNome(Head(nomes)) : TRUE>>)
         \o CodigosReconhecidos(Tail(nomes))

\* C5: the resolver returns all 13 codes exactly when it is given no name;
\* given names, it returns the codes of the recognised ones and drops the
\* others, so that a list of unrecognised names only gives no code and no
\* request; ["pregão eletrônico", "leilão eletrônico"] gives 6, 1.
C5_Resolver ==
    pc # "start" =>
        /\ (modalidadesCodigos = ALL_MODALITY_CODES) <=> (filters.modalidades = <<>>)
        /\ filters.modalidades # <<>> =>
              modalidadesCodigos = CodigosReconhecidos(filters.modalidades)
        /\ (filters.modalidades # <<>> /\ CodigosReconhecidos(filters.modalidades) = <<>>) =>
              modalidadesCodigos = <<>> /\ reqLog = <<>>
        /\ filters.modalidades = <<Nome6, Nome1>> => modalidadesCodigos = <<6, 1>>

\* C6: every letter-case spelling of the table's name of a code c resolves to
\* c, and no two table names resolve to the same code.
C6_Bijecao ==
    /\ pc # "start" =>
          \A c \in 1..13 :
              filters.modalidades[1] \in Grafias(c) => modalidadesCodigos = <<c>>
    /\ \A c1, c2 \in 1..13 :
          (c1 # c2 /\ getPncpModalidadeCodigo(NomeDe[c1]) # None) =>
              getPncpModalidadeCodigo(NomeDe[c1]) # getPncpModalidadeCodigo(NomeDe[c2])

-----------------------------------------------------------------------------
(* Claim about the date window (specification SpecDatas) *)

\* the digits yyyyMMdd of a calendar date
Digitos(dt) == dt[1] * 10000 + dt[2] * 100 + dt[3]

\* the calendar date written by the digits yyyyMMdd
DataDe(n) == <<n \div 10000, (n \div 100) % 100, n % 100>>

EhData(dt) == dt[2] \in 1..12 /\ dt[3] \in 1..DaysInMonth(dt[1], dt[2])

\* days from the first to the second calendar date
DiasEntre(a, b) == parseISO(b) - parseISO(a)

\* C7: with both date bounds present, the final date is sent as given and the
\* range sent spans at most 365 days: a longer range is sent with the start
\* 365 days before the final date, any other range is sent unchanged.
C7_JanelaDeDatas ==
    (pc # "start" /\ filters.dataInicial # None /\ filters.dataFinal # None) =>
        LET ini == filters.dataInicial[1]
            fim == filters.dataFinal[1]
        IN  /\ baseParams.dataFinal = Some(Digitos(fim))
            /\ baseParams.dataInicial # None
            /\ EhData(DataDe(baseParams.dataInicial[1]))
            /\ DiasEntre(DataDe(baseParams.dataInicial[1]), fim) <= 365
            /\ DiasEntre(ini, fim) > 365 =>
                  DiasEntre(DataDe(baseParams.dataInicial[1]), fim) = 365
            /\ DiasEntre(ini, fim) <= 365 =>
                  baseParams.dataInicial = Some(Digitos(ini))

\* a range of 366 days has been cut, and across the leap day
C7_Witness ==
    /\ pc # "start"
    /\ filters.dataInicial = Some(<<2024, 1, 1>>)
    /\ filters.dataFinal = Some(<<2025, 1, 1>>)
    /\ baseParams.dataInicial = Some(20240102)

-----------------------------------------------------------------------------
(* Claims about the filters (specification SpecFiltro) *)

\* the object description of a record ('' when it has none)
Descricao(lic) == IF lic.objetoCompra = None THEN <<>> ELSE lic.objetoCompra[1]

\* term occurs in text, letter case aside
ContemCI(text, term) ==
    \E o \in 0..(Len(text) - Len(term)) :
        \A j \in 1..Len(term) : ToLowerChar(text[o + j]) = ToLowerChar(term[j])

\* inclusion: no keyword and no synonym at all, or one of them occurs
PassaInclusao(lic, f) ==
    LET termos == f.palavrasChave \o Flat(f.sinonimos)
    IN  termos = <<>> \/ \E i \in 1..Len(termos) : ContemCI(Descricao(lic), termos[i])

NaBlacklist(lic, f) ==
    \E i \in 1..Len(f.blacklist) : ContemCI(Descricao(lic), f.blacklist[i])

NaFaixa(lic, f) ==
    LET est == IF lic.valorTotalEstimado = None THEN 0 ELSE lic.valorTotalEstimado[1]
        hom == IF lic.valorTotalHomologado = None THEN 0 ELSE lic.valorTotalHomologado[1]
        comparisonValue == IF est >= hom THEN est ELSE hom
    IN  /\ f.valorMin # None => comparisonValue >= f.valorMin[1]
        /\ f.valorMax # None => comparisonValue <= f.valorMax[1]

\* C8: a fetched record is in the final response exactly when it passes
\* inclusion (keywords and synonyms), is not blacklisted and is in the value
\* range.
C8_PipelineCompleto ==
    pc = "posted" =>
        LET Fica(lic) == PassaInclusao(lic, filters) /\ ~NaBlacklist(lic, filters)
                            /\ NaFaixa(lic, filters)
        IN  filtradas = SelectSeq(allLicitacoes, Fica)

\* C9: with no keyword and no synonym, the fetch-layer filter drops the
\* blacklisted records only and the boundary filter drops the records out of
\* the value range only.
C9_SemPalavrasChave ==
    (filters.palavrasChave = <<>> /\ Flat(filters.sinonimos) = <<>>) =>
        /\ Terminou =>
              LET Limpa(lic) == ~NaBlacklist(lic, filters)
              IN  resposta.data = SelectSeq(allLicitacoes, Limpa)
        /\ pc = "posted" =>
              LET Cabe(lic) == NaFaixa(lic, filters)
              IN  filtradas = SelectSeq(licitacoesEncontradas, Cabe)

\* without keywords or synonyms, one of two records was dropped by the
\* blacklist and the other by the value range
C9_Witness ==
    /\ pc = "posted"
    /\ filters.palavrasChave = <<>>
    /\ filters.sinonimos = <<>>
    /\ Len(allLicitacoes) = 2
    /\ Len(resposta.data) = 1
    /\ Len(filtradas) = 0

\* C10: no record of the result of buscarLicitacoesPNCP has a description
\* that contains a blacklist term, letter case aside.
C10_SemBlacklist ==
    Terminou =>
        \A i \in 1..Len(resposta.data) : ~NaBlacklist(resposta.data[i], filters)

\* a record that matches a keyword and a blacklist term was dropped while
\* another record was kept
C10_Witness ==
    /\ pc = "done"
    /\ Len(resposta.data) = 1
    /\ \E i \in 1..Len(allLicitacoes) :
          /\ \E k \in 1..Len(filters.palavrasChave) :
                ContemCI(Descricao(allLicitacoes[i]), filters.palavrasChave[k])
          /\ NaBlacklist(allLicitacoes[i], filters)
          /\ allLicitacoes[i] # resposta.data[1]

\* C11: in the boundary filter a record that passes inclusion is kept exactly
\* when max(estimated or 0, homologated or 0) is >= valorMin if valorMin is
\* set and <= valorMax if valorMax is set; the bounds are inclusive and a null
\* bound excludes nothing.
C11_FaixaDeValor ==
    pc = "posted" =>
        \A i \in 1..Len(licitacoesEncontradas) :
            LET lic == licitacoesEncontradas[i]
            IN  PassaInclusao(lic, filters) =>
                    ((\E j \in 1..Len(filtradas) : filtradas[j] = lic)
                        <=> NaFaixa(lic, filters))

\* a record whose comparison value equals both bounds was kept, and a record
\* above the upper bound was dropped
C11_Witness ==
    /\ pc = "posted"
    /\ filters.valorMin = Some(3)
    /\ filters.valorMax = Some(3)
    /\ Len(licitacoesEncontradas) = 2
    /\ Len(filtradas) = 1
    /\ filtradas[1].valorTotalEstimado = Some(3)
    /\ filtradas[1].valorTotalHomologado \in {None, Some(1)}
    /\ \E i \in 1..2 : /\ licitacoesEncontradas[i].valorTotalHomologado = Some(5)
                         /\ PassaInclusao(licitacoesEncontradas[i], filters)

-----------------------------------------------------------------------------
(* Claims about the whole pipeline (specification Spec) *)

RECURSIVE IsSubseq(_, _)
\* a is b with some elements left out, the others in the order of b
IsSubseq(a, b) ==
    IF a = <<>> THEN TRUE
    ELSE IF b = <<>> THEN FALSE
    ELSE IF Head(a) = Head(b) THEN IsSubseq(Tail(a), Tail(b))
    ELSE IsSubseq(a, Tail(b))

\* C12: the raw aggregate is the fetched pages in the order of the code
\* sequence and, within a code, in page order; the result of the fetch layer
\* and the final response are the aggregate with some records left out: no
\* record is moved, repeated, added or changed.
C12_SelecaoEstavel ==
    /\ allLicitacoes = OkData(reqLog)
    /\ \A j, j2 \in 1..Len(reqLog) :
          j < j2 => \/ reqLog[j].i < reqLog[j2].i
                    \/ reqLog[j].i = reqLog[j2].i /\ reqLog[j].pag < reqLog[j2].pag
    /\ \A j \in 1..Len(reqLog) : \A k \in 1..Len(reqLog[j].data) :
          reqLog[j].data[k].cod = reqLog[j].cod /\ reqLog[j].data[k].pag = reqLog[j].pag
    /\ Terminou => IsSubseq(resposta.data, allLicitacoes)
    /\ pc = "posted" => /\ IsSubseq(filtradas, licitacoesEncontradas)
                        /\ IsSubseq(filtradas, allLicitacoes)

\* of three fetched records, of two codes, the second was dropped and the
\* other two are the final response
C12_Witness ==
    /\ pc = "posted"
    /\ Len(allLicitacoes) = 3
    /\ filtradas = <<allLicitacoes[1], allLicitacoes[3]>>
    /\ allLicitacoes[1].cod # allLicitacoes[3].cod

-----------------------------------------------------------------------------
(* Claims about handleApiError (specification SpecErro) *)

\* C13: every failed request is classified, whatever the failure is, and the
\* call goes on; the result has success = false, a string as error and as
\* status the status code of the response the failure carries, 500 when it
\* carries none.
C13_ErroNormalizado ==
    /\ Len(erros) = Cardinality({j \in 1..Len(reqLog) : reqLog[j].res = "falha"})
    /\ \A n \in 1..Len(erros) :
          LET e == erros[n]
          IN  /\ e.ret.success = FALSE
              /\ e.ret.error.t = "string"
              /\ e.ret.status \in Int
              /\ e.ret.status = IF e.err.kind = "axios" /\ e.err.temResposta
                                THEN e.err.status ELSE 500

\* a call has returned after an HTTP 503 whose body holds a number as error,
\* and after a thrown value that is no Error
C13_Witness ==
    /\ pc = "done"
    /\ Len(erros) = 2
    /\ erros[1].err = ErroHTTP(503, Corpo(Num("7"), Undefined))
    /\ erros[1].ret.status = 503
    /\ erros[2].err = ValorLancado
    /\ erros[2].ret.status = 500

\* the error or message field of an error body, when it holds a text
CampoUpstream(err) ==
    IF err.data.temObj /\ err.data.error.t = "string" /\ err.data.error.v # ""
    THEN <<err.data.error>>
    ELSE IF err.data.temObj /\ err.data.message.t = "string"
    THEN <<err.data.message>>
    ELSE <<>>

\* C14: status 404 and status 429 give their fixed messages whatever the
\* body; another status of an HTTP failure gives the body's error/message
\* field when there is one and the caller's default message when there is
\* none; a failure without a response gives the underlying error's message.
C14_Mensagens ==
    \A n \in 1..Len(erros) :
        LET e == erros[n]
            http == e.err.kind = "axios" /\ e.err.temResposta
        IN  /\ (http /\ e.err.status = 404) => e.ret.error = Str(Msg404)
            /\ (http /\ e.err.status = 429) => e.ret.error = Str(Msg429)
            /\ (http /\ e.err.status \notin {404, 429}) =>
                  e.ret.error = IF CampoUpstream(e.err) # <<>>
                                THEN CampoUpstream(e.err)[1] ELSE Str(e.msg)
            /\ (~http /\ e.err.kind # "outro") => e.ret.error = e.err.message

-----------------------------------------------------------------------------
(* Claims about the end of a modality's pagination (specification Spec) *)

\* the number of records fetched by the requests before the j-th
RegistrosAntes(j) == Len(OkData(SubSeq(reqLog, 1, j - 1)))

\* C16: a response without an array in data ends the pagination of its
\* modality at that page: no further page of it is requested, the error
\* classifier is not called for it, the records fetched so far stay in the
\* aggregate, the codes that follow are still queried and the call returns
\* success.
C16_MalformadaSilenciosa ==
    \A j \in 1..Len(reqLog) :
        reqLog[j].res = "malformado" =>
            /\ \A j2 \in (j + 1)..Len(reqLog) : reqLog[j2].i # reqLog[j].i
            /\ \A n \in 1..Len(erros) :
                  ~(erros[n].i = reqLog[j].i /\ erros[n].pag = reqLog[j].pag)
            /\ Len(allLicitacoes) >= RegistrosAntes(j)
            /\ SubSeq(allLicitacoes, 1, RegistrosAntes(j)) = OkData(SubSeq(reqLog, 1, j - 1))
            /\ Terminou =>
                  /\ resposta.success
                  /\ \A i2 \in (reqLog[j].i + 1)..Len(modalidadesCodigos) :
                        \E j2 \in (j + 1)..Len(reqLog) :
                            reqLog[j2].i = i2 /\ reqLog[j2].pag = 1

\* a call has returned after page 2 of a modality was malformed, page 1 of it
\* having delivered a record, and the next code was queried
C16_Witness ==
    /\ pc = "done"
    /\ \E j \in 2..Len(reqLog) :
          /\ reqLog[j].res = "malformado"
          /\ reqLog[j].pag = 2
          /\ reqLog[j - 1].data # <<>>
          /\ Len(reqLog) > j
          /\ Len(allLicitacoes) >= 1

\* C17: when page 1 of a modality comes back with zero records, it is the
\* only request made for that modality, whatever page count it reports.
C17_PrimeiraPaginaVazia ==
    \A i \in 1..idx :
        LET es == Visita(i)
        IN  (Len(es) >= 1 /\ es[1].res = "ok" /\ es[1].data = <<>>) => Len(es) = 1

\* C18: when page 1 of a modality reports a page count of 0 or none, it is
\* the only request made for that modality, the records it carried are in the
\* aggregate and the error classifier is not called for that modality.
C18_SemTotalDePaginas ==
    \A j \in 1..Len(reqLog) :
        (reqLog[j].pag = 1 /\ reqLog[j].res = "ok"
            /\ (reqLog[j].tp = None \/ reqLog[j].tp = Some(0))) =>
            /\ Len(Visita(reqLog[j].i)) = 1
            /\ Len(allLicitacoes) >= RegistrosAntes(j) + Len(reqLog[j].data)
            /\ SubSeq(allLicitacoes, RegistrosAntes(j) + 1,
                      RegistrosAntes(j) + Len(reqLog[j].data)) = reqLog[j].data
            /\ \A n \in 1..Len(erros) : erros[n].i # reqLog[j].i

\* a modality is done with whose page 1 carried a record and no page count
C18_Witness ==
    /\ \E j \in 1..Len(reqLog) :
          /\ reqLog[j].pag = 1 /\ reqLog[j].res = "ok"
          /\ reqLog[j].tp = None /\ reqLog[j].data # <<>>
          /\ Encerrada(reqLog[j].i)
          /\ allLicitacoes # <<>>

-----------------------------------------------------------------------------
(* Claim about termination (specification SpecVivo) *)

\* the page count reported by page 1 of the i-th code (0 when none was)
TotalDaPagina1(i) ==
    LET es == Visita(i)
    IN  IF Len(es) >= 1 /\ es[1].res = "ok" /\ es[1].tp # None THEN es[1].tp[1] ELSE 0

\* the requests made so far stay within the page counts, code by code
DentroDoLimite ==
    /\ \A i \in 1..Len(modalidadesCodigos) :
          Len(Visita(i)) <= Max(1, TotalDaPagina1(i))
    /\ \A j, j2, j3 \in 1..Len(reqLog) :
          (j < j2 /\ j2 < j3 /\ reqLog[j].i = reqLog[j3].i) => reqLog[j2].i = reqLog[j].i
    /\ Terminou => \A i \in 1..Len(modalidadesCodigos) :
                       Len(Visita(i)) >= 1 /\ Visita(i)[1].cod = modalidadesCodigos[i]

-----------------------------------------------------------------------------
(* Claims about the rate limiter (specification SpecLimite) *)

\* C15: whatever the interleaving of the requests being handled, no client
\* has more than 20 requests admitted in one window; the stored count is the
\* number of requests admitted in the window (none is lost, none comes from
\* another client's requests), and a request beyond the 20th of the window is
\* refused with the 429 response.
C15_LimitePorCliente ==
    \A k \in Chaves :
        /\ janela[k].n <= MAX_REQUESTS_PER_IP
        /\ ~janela[k].indevida
        /\ (requestCounts[k] = None) <=> (janela[k].inicio < 0)
        /\ requestCounts[k] # None =>
              /\ requestCounts[k][1].count = janela[k].n
              /\ requestCounts[k][1].count <= MAX_REQUESTS_PER_IP
              /\ requestCounts[k][1].resetTime = janela[k].inicio + RATE_LIMIT_WINDOW

\* a client at the cap was just refused while the other client is below the
\* cap and two admitted requests are being handled
C15_Witness ==
    /\ EmCursoTotal = MaxEmCurso
    /\ ultima.status = 429
    /\ requestCounts[ultima.chave] # None
    /\ requestCounts[ultima.chave][1].count = MAX_REQUESTS_PER_IP
    /\ \E k \in Chaves \ {ultima.chave} :
          requestCounts[k] # None /\ requestCounts[k][1].count < MAX_REQUESTS_PER_IP

\* C20: a request answered with 429 was over the cap of its client's running
\* window, its handling ends with that response (it enters no await of the
\* handler) and the Map of the limiter is left as it was; a request that
\* enters the reading of the body was counted by the limiter in the same step.
C20_LimiteAntesDeTudo ==
    [][/\ (ultima' # ultima /\ ultima'.status = 429) =>
             /\ requestCounts' = requestCounts
             /\ emCurso' = emCurso
             /\ requestCounts[ultima'.chave] # None
             /\ requestCounts[ultima'.chave][1].count >= MAX_REQUESTS_PER_IP
             /\ now <= requestCounts[ultima'.chave][1].resetTime
       /\ emCurso'["json"] > emCurso["json"] =>
             /\ ultima' = ultima
             /\ \E k \in Chaves :
                   /\ requestCounts'[k] # requestCounts[k]
                   /\ \A k2 \in Chaves \ {k} : requestCounts'[k2] = requestCounts[k2]
      ]_vars

\* a request was refused after time had passed in its client's window, while
\* an admitted request is being handled
C20_Witness ==
    /\ ultima.status = 429
    /\ now = 60000
    /\ requestCounts[ultima.chave] = Some([count |-> MAX_REQUESTS_PER_IP, resetTime |-> 60000])
    /\ EmCursoTotal > 0

\* C21: a request of a client that arrives after the end of the client's
\* window is admitted and opens a new window of 60 seconds with count 1 (so
\* no request is refused after the window end, and a client that was refused
\* gets in again); a request that arrives before or exactly at the window
\* end is counted in the old window, whose end stays.
C21_JanelaExpira ==
    [][/\ \A k \in Chaves :
             (requestCounts[k] # None /\ requestCounts'[k] # requestCounts[k]) =>
                 IF now > requestCounts[k][1].resetTime
                 THEN requestCounts'[k] =
                          Some([count |-> 1, resetTime |-> now + RATE_LIMIT_WINDOW])
                 ELSE requestCounts'[k] =
                          Some([count |-> requestCounts[k][1].count + 1,
                                resetTime |-> requestCounts[k][1].resetTime])
       /\ (ultima' # ultima /\ ultima'.status = 429) =>
             /\ requestCounts[ultima'.chave] # None
             /\ now <= requestCounts[ultima'.chave][1].resetTime
      ]_vars

\* a client that filled its window and was refused at the very end of it has
\* been admitted one millisecond later, into a new window
C21_Witness ==
    /\ now = 60001
    /\ ultima.status = 429
    /\ janela[ultima.chave].inicio = 60001
    /\ requestCounts[ultima.chave] =
          Some([count |-> 1, resetTime |-> 60001 + RATE_LIMIT_WINDOW])

=============================================================================
